---- MODULE Spec2Model ----
(***************************************************************************)
(* A model of gemini_analyze.py: the helper functions clean_market_cap,    *)
(* preprocess_company_name and assign_seniority_score, and the main script *)
(* that filters the reference companies by market cap, matches the         *)
(* LinkedIn connections against them, scores, sorts and filters the        *)
(* matches and writes the leads.                                           *)
(*                                                                         *)
(* A Python str is a sequence of one-character strings; a value read from  *)
(* a CSV cell is a record [na, s] (na: pandas read the cell as NaN).       *)
(***************************************************************************)
EXTENDS Integers, Sequences, FiniteSets, TLC

VARIABLES
    pc,                     \* position in the script / in the helper under test
    value, cap,             \* clean_market_cap: argument and returned value
    name, once, twice,      \* preprocess_company_name: argument, f(x), f(f(x))
    title, score,           \* assign_seniority_score: argument and returned value
    df_companies, df_linkedin,
    df_companies_filtered,
    target_company_names, target_company_map, market_cap_map,
    fuzzy_match_cache, index, extractOne_calls, matched_connections,
    df_matched, df_matched_sorted, df_potential_contacts,
    output_file, to_csv_calls

capVars   == <<value, cap>>
normVars  == <<name, once, twice>>
scoreVars == <<title, score>>
pipeVars  == <<df_companies, df_linkedin,
               df_companies_filtered, target_company_names, target_company_map,
               market_cap_map, fuzzy_match_cache, index, extractOne_calls,
               matched_connections, df_matched, df_matched_sorted,
               df_potential_contacts, output_file, to_csv_calls>>
vars      == <<pc, capVars, normVars, scoreVars, pipeVars>>

----------------------------------------------------------------------------
(* Bounds of the model. *)

\* longest raw market-cap string tried on clean_market_cap
MaxCapLen == 3
\* longest raw company name tried on preprocess_company_name
MaxNameLen == 5
\* most title fragments concatenated into one title for assign_seniority_score
MaxPieces == 2
\* most rows of Companies.csv and of LinkedIn.csv
MaxCompanies == 2
MaxConns == 2

----------------------------------------------------------------------------
(* Python str operations. *)

\* a str as the sequence of its characters
chars(str) == [i \in 1..Len(str) |-> SubSeq(str, i, i)]

UpperCase == chars("ABCDEFGHIJKLMNOPQRSTUVWXYZ")
LowerCase == chars("abcdefghijklmnopqrstuvwxyz")
Digits    == chars("0123456789")
\* the characters of the model in code-point order (str comparison)
Ascii     == chars(" !$,-.") \o Digits \o UpperCase \o chars("_") \o LowerCase

Range(s) == {s[i] : i \in 1..Len(s)}
Pos(c, s) == CHOOSE i \in 1..Len(s) : s[i] = c
\* ord(c)
Code == [c \in Range(Ascii) |-> Pos(c, Ascii)]
UpperSet == Range(UpperCase)
LowerSet == Range(LowerCase)
DigitSet == Range(Digits)
ToLower == [c \in UpperSet |-> LowerCase[Pos(c, UpperCase)]]
ToUpper == [c \in LowerSet |-> UpperCase[Pos(c, LowerCase)]]
DigitValue == [c \in DigitSet |-> Pos(c, Digits) - 1]

NaN == [na |-> TRUE, s |-> <<>>]
Str(s) == [na |-> FALSE, s |-> s]
isna(v) == v.na

lowerChar(c) == IF c \in UpperSet THEN ToLower[c] ELSE c
upperChar(c) == IF c \in LowerSet THEN ToUpper[c] ELSE c
lower(s) == [i \in 1..Len(s) |-> lowerChar(s[i])]
upper(s) == [i \in 1..Len(s) |-> upperChar(s[i])]

\* s.replace(c, '') for a one-character c
remove(s, c) == SelectSeq(s, LAMBDA x : x # c)

isspace(c) == c = " "
\* s.strip()
strip(s) ==
    LET keep == {i \in 1..Len(s) : ~isspace(s[i])}
    IN  IF keep = {} THEN <<>>
        ELSE LET lo == CHOOSE i \in keep : \A j \in keep : i <= j
                 hi == CHOOSE i \in keep : \A j \in keep : j <= i
             IN  SubSeq(s, lo, hi)

\* k in s, for str k and s
contains(k, s) ==
    \E i \in 1..(Len(s) - Len(k) + 1) : SubSeq(s, i, i + Len(k) - 1) = k

\* a < b for str (code-point order)
strLess(a, b) ==
    \/ /\ Len(a) < Len(b)
       /\ SubSeq(b, 1, Len(a)) = a
    \/ \E i \in 1..Len(a) :
          /\ i <= Len(b)
          /\ SubSeq(a, 1, i - 1) = SubSeq(b, 1, i - 1)
          /\ Code[a[i]] < Code[b[i]]

\* all strings over alphabet of length at most n
RECURSIVE StringsUpTo(_, _)
StringsUpTo(alphabet, n) ==
    IF n = 0 THEN {<<>>}
    ELSE LET shorter == StringsUpTo(alphabet, n - 1)
         IN  shorter \cup {Append(s, c) : s \in shorter, c \in alphabet}

----------------------------------------------------------------------------
(* Python float values, held exactly as signed decimals: none is None (the *)
(* ValueError branch), ip and fp the digits before and after the point.    *)

None == [none |-> TRUE, neg |-> FALSE, ip |-> <<>>, fp |-> <<>>]

RECURSIVE dropLeadingZeros(_)
dropLeadingZeros(d) ==
    IF d # <<>> /\ d[1] = 0 THEN dropLeadingZeros(Tail(d)) ELSE d

RECURSIVE dropTrailingZeros(_)
dropTrailingZeros(d) ==
    IF d # <<>> /\ d[Len(d)] = 0 THEN dropTrailingZeros(SubSeq(d, 1, Len(d) - 1)) ELSE d

Number(neg, ip, fp) ==
    [none |-> FALSE, neg |-> neg,
     ip |-> dropLeadingZeros(ip), fp |-> dropTrailingZeros(fp)]

isZero(x) == x.ip = <<>> /\ x.fp = <<>>

\* float(s): optional sign, digits with at most one point, blanks around
float(s) ==
    LET t    == strip(s)
        neg  == t # <<>> /\ t[1] = "-"
        body == IF neg THEN Tail(t) ELSE t
        dots == {i \in 1..Len(body) : body[i] = "."}
        ok   == /\ Cardinality(dots) <= 1
                /\ Len(body) > Cardinality(dots)
                /\ \A i \in 1..Len(body) : i \in dots \/ body[i] \in DigitSet
        dot  == IF dots = {} THEN Len(body) + 1 ELSE CHOOSE i \in dots : TRUE
        val(part) == [i \in 1..Len(part) |-> DigitValue[part[i]]]
    IN  IF ~ok THEN None
        ELSE Number(neg, val(SubSeq(body, 1, dot - 1)),
                         val(SubSeq(body, dot + 1, Len(body))))

\* x * 10^k
timesPow10(x, k) ==
    LET pad == IF Len(x.fp) < k THEN [i \in 1..(k - Len(x.fp)) |-> 0] ELSE <<>>
        fp  == x.fp \o pad
    IN  Number(x.neg, x.ip \o SubSeq(fp, 1, k), SubSeq(fp, k + 1, Len(fp)))

\* the digits of a natural number
RECURSIVE digitsOf(_)
digitsOf(n) == IF n = 0 THEN <<>> ELSE Append(digitsOf(n \div 10), n % 10)
fromInt(n) == Number(FALSE, digitsOf(n), <<>>)

\* a < b for digit sequences of one length
lexLess(a, b) ==
    \E i \in 1..Len(a) : a[i] < b[i] /\ \A j \in 1..(i - 1) : a[j] = b[j]

magLess(x, y) ==
    \/ Len(x.ip) < Len(y.ip)
    \/ /\ Len(x.ip) = Len(y.ip)
       /\ \/ lexLess(x.ip, y.ip)
          \/ /\ x.ip = y.ip
             /\ LET n  == IF Len(x.fp) > Len(y.fp) THEN Len(x.fp) ELSE Len(y.fp)
                    px == x.fp \o [i \in 1..(n - Len(x.fp)) |-> 0]
                    py == y.fp \o [i \in 1..(n - Len(y.fp)) |-> 0]
                IN  lexLess(px, py)

\* x < y and x <= y for numbers (never None)
numLess(x, y) ==
    IF isZero(x) /\ isZero(y) THEN FALSE
    ELSE IF x.neg /\ ~y.neg THEN TRUE
    ELSE IF ~x.neg /\ y.neg THEN FALSE
    ELSE IF x.neg THEN magLess(y, x)
    ELSE magLess(x, y)
numLeq(x, y) == ~numLess(y, x)

----------------------------------------------------------------------------
(* Configuration *)

MIN_MARKET_CAP_USD == 50000000
MAX_MARKET_CAP_USD == 100000000
FUZZY_MATCH_THRESHOLD == 100
MIN_SENIORITY_SCORE == 60

----------------------------------------------------------------------------
(* clean_market_cap *)

clean_market_cap(v) ==
    IF isna(v) THEN None
    ELSE LET val == remove(remove(upper(strip(v.s)), "$"), ",")
         IN  IF "B" \in Range(val)
                 THEN LET num == float(remove(val, "B"))
                      IN  IF num.none THEN None ELSE timesPow10(num, 9)
             ELSE IF "M" \in Range(val)
                 THEN LET num == float(remove(val, "M"))
                      IN  IF num.none THEN None ELSE timesPow10(num, 6)
             ELSE float(val)

----------------------------------------------------------------------------
(* preprocess_company_name *)

\* \w of the re module
WordChars == UpperSet \cup LowerSet \cup DigitSet \cup {"_"}
isWord(c) == c \in WordChars

\* \b at position p of s: between s[p-1] and s[p]
wordBoundary(s, p) ==
    LET before == p > 1 /\ isWord(s[p - 1])
        after  == p <= Len(s) /\ isWord(s[p])
    IN  before # after

LEGAL_SUFFIXES ==
    <<chars("inc"), chars("llc"), chars("ltd"), chars("corp"), chars("corporation"), chars("plc"), chars("gmbh"), chars("ag"), chars("co")>>

\* \b(inc|llc|ltd|corp|corporation|plc|gmbh|ag|co)\b\.?$ matches s from position i
suffixMatchesAt(s, i) ==
    \E k \in 1..Len(LEGAL_SUFFIXES) :
        LET w == LEGAL_SUFFIXES[k]
            e == i + Len(w)
        IN  /\ e - 1 <= Len(s)
            /\ SubSeq(s, i, e - 1) = w
            /\ wordBoundary(s, i)
            /\ wordBoundary(s, e)
            /\ \/ e = Len(s) + 1
               \/ e = Len(s) /\ s[e] = "."

\* re.sub of that pattern by '': the match runs to the end of the string
removeSuffix(s) ==
    LET starts == {i \in 1..Len(s) : suffixMatchesAt(s, i)}
    IN  IF starts = {} THEN s
        ELSE SubSeq(s, 1, (CHOOSE i \in starts : \A j \in starts : i <= j) - 1)

\* re.sub(r'[^\w\s]', '', s)
removePunctuation(s) == SelectSeq(s, LAMBDA c : isWord(c) \/ isspace(c))

\* re.sub(r'\s+', ' ', s)
collapseWhitespace(s) ==
    LET F[i \in 0..Len(s)] ==
            IF i = 0 THEN <<>>
            ELSE LET before == F[i - 1]
                 IN  IF isspace(s[i]) /\ i > 1 /\ isspace(s[i - 1]) THEN before
                     ELSE Append(before, IF isspace(s[i]) THEN " " ELSE s[i])
    IN  F[Len(s)]

preprocess_company_name(v) ==
    IF isna(v) THEN <<>>
    ELSE strip(collapseWhitespace(removePunctuation(strip(removeSuffix(lower(v.s))))))

----------------------------------------------------------------------------
(* assign_seniority_score *)

SENIORITY_KEYWORDS == <<
    [keyword |-> chars("ceo"), value |-> 100],
    [keyword |-> chars("chief executive officer"), value |-> 100],
    [keyword |-> chars("cto"), value |-> 95],
    [keyword |-> chars("chief technology officer"), value |-> 95],
    [keyword |-> chars("cfo"), value |-> 95],
    [keyword |-> chars("chief financial officer"), value |-> 95],
    [keyword |-> chars("coo"), value |-> 95],
    [keyword |-> chars("chief operating officer"), value |-> 95],
    [keyword |-> chars("cio"), value |-> 95],
    [keyword |-> chars("chief information officer"), value |-> 95],
    [keyword |-> chars("cmo"), value |-> 95],
    [keyword |-> chars("chief marketing officer"), value |-> 95],
    [keyword |-> chars("chief"), value |-> 90],
    [keyword |-> chars("president"), value |-> 85],
    [keyword |-> chars("founder"), value |-> 85],
    [keyword |-> chars("partner"), value |-> 80],
    [keyword |-> chars("vp"), value |-> 75],
    [keyword |-> chars("vice president"), value |-> 75],
    [keyword |-> chars("evp"), value |-> 78],
    [keyword |-> chars("executive vice president"), value |-> 78],
    [keyword |-> chars("svp"), value |-> 76],
    [keyword |-> chars("senior vice president"), value |-> 76],
    [keyword |-> chars("principal"), value |-> 70],
    [keyword |-> chars("head"), value |-> 65],
    [keyword |-> chars("director"), value |-> 60],
    [keyword |-> chars("manager"), value |-> 40],
    [keyword |-> chars("lead"), value |-> 30],
    [keyword |-> chars("board member"), value |-> 100],
    [keyword |-> chars("investor"), value |-> 100] >>

NEGATIVE_KEYWORDS == <<
    [keyword |-> chars("assistant to"), penalty |-> -20],
    [keyword |-> chars("intern"), penalty |-> -50],
    [keyword |-> chars("former"), penalty |-> -100],
    [keyword |-> chars("ex-"), penalty |-> -100] >>

Max(a, b) == IF a >= b THEN a ELSE b

\* re.search(r'\b' + re.escape(keyword) + r'\b', s)
searchWord(keyword, s) ==
    \E i \in 1..(Len(s) - Len(keyword) + 1) :
        /\ SubSeq(s, i, i + Len(keyword) - 1) = keyword
        /\ wordBoundary(s, i)
        /\ wordBoundary(s, i + Len(keyword))

\* lines 97-99: the penalties of all negative keywords that occur in the title
penaltyOf(title_lower) ==
    LET F[k \in 0..Len(NEGATIVE_KEYWORDS)] ==
            IF k = 0 THEN 0
            ELSE IF contains(NEGATIVE_KEYWORDS[k].keyword, title_lower)
                 THEN F[k - 1] + NEGATIVE_KEYWORDS[k].penalty
                 ELSE F[k - 1]
    IN  F[Len(NEGATIVE_KEYWORDS)]

\* lines 102-106: the highest value of a positive keyword found as a whole word
highestPositiveScore(title_lower) ==
    LET F[k \in 0..Len(SENIORITY_KEYWORDS)] ==
            IF k = 0 THEN 0
            ELSE IF searchWord(SENIORITY_KEYWORDS[k].keyword, title_lower)
                 THEN Max(F[k - 1], SENIORITY_KEYWORDS[k].value)
                 ELSE F[k - 1]
    IN  F[Len(SENIORITY_KEYWORDS)]

\* a variant, for comparison: the boundary -50 counted as not strongly negated
notStronglyNegated_inclusive(s) == s >= -50

\* line 109: the positive score is added only if not strongly negated
notStronglyNegated(s) == s > -50

\* lines 109-110
addPositive(penalty, highest_positive_score) ==
    IF notStronglyNegated(penalty) THEN penalty + highest_positive_score ELSE penalty

\* line 113
clampScore(s) == IF s >= -50 THEN Max(s, 0) ELSE s

assign_seniority_score(v) ==
    IF isna(v) THEN 0
    ELSE LET title_lower == lower(v.s)
         IN  clampScore(addPositive(penaltyOf(title_lower),
                                    highestPositiveScore(title_lower)))

----------------------------------------------------------------------------
(* thefuzz, as the script calls it (lines 193-197): process.extractOne     *)
(* with scorer=fuzz.token_sort_ratio.                                      *)

\* utils.full_process: non-alphanumerics to blanks, lower case, strip
full_process(s) ==
    strip(lower([i \in 1..Len(s) |->
        IF s[i] \in UpperSet \cup LowerSet \cup DigitSet THEN s[i] ELSE " "]))

\* s.split(): the maximal runs of non-blank characters
split(s) ==
    LET F[i \in 0..Len(s)] ==
            IF i = 0 THEN <<>>
            ELSE LET before == F[i - 1]
                 IN  IF isspace(s[i]) THEN before
                     ELSE IF i > 1 /\ ~isspace(s[i - 1])
                          THEN [before EXCEPT ![Len(before)] = Append(@, s[i])]
                     ELSE Append(before, <<s[i]>>)
    IN  F[Len(s)]

\* sorted(tokens)
RECURSIVE sortedTokens(_)
sortedTokens(ts) ==
    IF ts = <<>> THEN <<>>
    ELSE LET rest == sortedTokens(SubSeq(ts, 1, Len(ts) - 1))
             t    == ts[Len(ts)]
             k    == Cardinality({i \in 1..Len(rest) : ~strLess(t, rest[i])})
         IN  SubSeq(rest, 1, k) \o <<t>> \o SubSeq(rest, k + 1, Len(rest))

\* " ".join(tokens)
RECURSIVE join(_)
join(ts) ==
    IF ts = <<>> THEN <<>>
    ELSE IF Len(ts) = 1 THEN ts[1]
    ELSE ts[1] \o <<" ">> \o join(Tail(ts))

\* length of a longest common subsequence of a and b, row by row: Row[i][j + 1]
\* is that of the first i characters of a and the first j of b
lcs(a, b) ==
    LET Row[i \in 0..Len(a)] ==
            IF i = 0 THEN [j \in 1..(Len(b) + 1) |-> 0]
            ELSE LET above == Row[i - 1]
                     Cur[j \in 0..Len(b)] ==
                         IF j = 0 THEN <<0>>
                         ELSE LET left == Cur[j - 1]
                              IN  Append(left, IF a[i] = b[j] THEN above[j] + 1
                                               ELSE Max(above[j + 1], left[j]))
                 IN  IF Len(above) = Len(b) + 1 THEN Cur[Len(b)] ELSE above
    IN  Row[Len(a)][Len(b) + 1]

\* round(100 * num / den) to an int, halves to even
roundPercent(num, den) ==
    LET q == (100 * num) \div den
        r == (100 * num) % den
    IN  IF 2 * r < den THEN q
        ELSE IF 2 * r > den THEN q + 1
        ELSE IF q % 2 = 0 THEN q ELSE q + 1

\* fuzz.ratio: the normalized indel similarity, 0..100
ratio(a, b) ==
    IF Len(a) + Len(b) = 0 THEN 100
    ELSE roundPercent(2 * lcs(a, b), Len(a) + Len(b))

\* fuzz.token_sort_ratio on processed strings
token_sort_ratio(a, b) ==
    ratio(join(sortedTokens(split(a))), join(sortedTokens(split(b))))

NoMatch == [found |-> FALSE, best_match |-> <<>>, score |-> 0]

\* process.extractOne(query, choices, scorer=fuzz.token_sort_ratio): the first
\* choice of the highest score, None for no choices
extractOne(query, choices) ==
    IF choices = <<>> THEN NoMatch
    ELSE LET processed == full_process(query)
             sc == [i \in 1..Len(choices) |->
                       token_sort_ratio(processed, full_process(choices[i]))]
             best == CHOOSE i \in 1..Len(choices) :
                        /\ \A j \in 1..Len(choices) : sc[j] <= sc[i]
                        /\ \A j \in 1..(i - 1) : sc[j] < sc[i]
         IN  [found |-> TRUE, best_match |-> choices[best], score |-> sc[best]]

----------------------------------------------------------------------------
(* pandas *)

\* a variant, for comparison: a repeated key keeps its first value
to_dict_first(keys, values) ==
    [k \in Range(keys) |-> values[CHOOSE i \in 1..Len(keys) :
                                     keys[i] = k /\ \A j \in 1..(i - 1) : keys[j] # k]]

\* Series.to_dict() of values indexed by keys: a repeated key keeps its last value
to_dict(keys, values) ==
    [k \in Range(keys) |->
        values[CHOOSE i \in 1..Len(keys) :
                  keys[i] = k /\ \A j \in (i + 1)..Len(keys) : keys[j] # k]]

\* {**d, key: v}
put(d, key, v) == [k \in DOMAIN d \cup {key} |-> IF k = key THEN v ELSE d[k]]

column(df, f(_)) == [i \in 1..Len(df) |-> f(df[i])]

\* a variant, for comparison: the seniority score ascending too
sortsBefore_ascending(a, b) ==
    \/ strLess(a.matched_company_name.s, b.matched_company_name.s)
    \/ /\ a.matched_company_name.s = b.matched_company_name.s
       /\ a.seniority_score < b.seniority_score

\* row a sorts before row b by ['Matched Company Name', 'Seniority Score'],
\* ascending=[True, False]
sortsBefore(a, b) ==
    \/ strLess(a.matched_company_name.s, b.matched_company_name.s)
    \/ /\ a.matched_company_name.s = b.matched_company_name.s
       /\ a.seniority_score > b.seniority_score

\* DataFrame.sort_values: stable
RECURSIVE sort_values(_)
sort_values(df) ==
    IF df = <<>> THEN <<>>
    ELSE LET rest == sort_values(SubSeq(df, 1, Len(df) - 1))
             r    == df[Len(df)]
             k    == Cardinality({i \in 1..Len(rest) : ~sortsBefore(r, rest[i])})
         IN  SubSeq(rest, 1, k) \o <<r>> \o SubSeq(rest, k + 1, Len(rest))

----------------------------------------------------------------------------
(* The main script. A frame is the sequence of its rows, a row a record of *)
(* its cells.                                                              *)

\* a variant, for comparison: the minimum itself excluded
atLeastMin_strict(x) == ~x.none /\ numLess(fromInt(MIN_MARKET_CAP_USD), x)

\* line 153: Series >= MIN_MARKET_CAP_USD, False for a missing value
atLeastMin(x) == ~x.none /\ numLeq(fromInt(MIN_MARKET_CAP_USD), x)
\* line 154: Series <= MAX_MARKET_CAP_USD, False for a missing value
atMostMax(x) == ~x.none /\ numLeq(x, fromInt(MAX_MARKET_CAP_USD))

\* lines 151-155
filterByMarketCap(df) ==
    SelectSeq(
        column(df, LAMBDA r : [company_name |-> r.company_name,
                               market_capitalization |-> r.market_capitalization,
                               market_cap_usd |-> clean_market_cap(r.market_capitalization)]),
        LAMBDA r : atLeastMin(r.market_cap_usd) /\ atMostMax(r.market_cap_usd))

\* line 164
withCleanCompanyName(df) ==
    column(df, LAMBDA r : [company_name |-> r.company_name,
                           market_capitalization |-> r.market_capitalization,
                           market_cap_usd |-> r.market_cap_usd,
                           clean_company_name |-> preprocess_company_name(r.company_name)])

\* line 179
withCleanCompany(df) ==
    column(df, LAMBDA r : [company |-> r.company, position |-> r.position,
                           clean_company |-> preprocess_company_name(r.company)])

\* a variant, for comparison: a score equal to the threshold excluded
isMatch_strict(m) == m.found /\ m.best_match # <<>> /\ m.score > FUZZY_MATCH_THRESHOLD

\* line 206: best_match and score >= FUZZY_MATCH_THRESHOLD
isMatch(m) == m.found /\ m.best_match # <<>> /\ m.score >= FUZZY_MATCH_THRESHOLD

\* lines 207-210
connection_data(row, m) ==
    [company |-> row.company, position |-> row.position,
     clean_company |-> row.clean_company,
     matched_company_name |-> target_company_map[m.best_match],
     matched_market_cap |-> market_cap_map[m.best_match],
     match_score |-> m.score]

\* lines 206-211
appendIfMatched(row, m) ==
    IF isMatch(m) THEN Append(matched_connections, connection_data(row, m))
    ELSE matched_connections

\* line 222
withSeniorityScore(df) ==
    column(df, LAMBDA r : [company |-> r.company, position |-> r.position,
                           clean_company |-> r.clean_company,
                           matched_company_name |-> r.matched_company_name,
                           matched_market_cap |-> r.matched_market_cap,
                           match_score |-> r.match_score,
                           seniority_score |-> assign_seniority_score(r.position)])

\* line 225
dropNegative(df) == SelectSeq(df, LAMBDA r : r.seniority_score >= 0)

\* line 238
meetsMinSeniority(df) == SelectSeq(df, LAMBDA r : r.seniority_score >= MIN_SENIORITY_SCORE)

\* d + 1 for a digit sequence
RECURSIVE increment(_)
increment(d) ==
    IF d = <<>> THEN <<1>>
    ELSE IF d[Len(d)] < 9 THEN [d EXCEPT ![Len(d)] = @ + 1]
    ELSE Append(increment(SubSeq(d, 1, Len(d) - 1)), 0)

\* the digits of x rounded to an integer, halves to even
rounded(x) ==
    LET up == /\ x.fp # <<>>
              /\ \/ x.fp[1] > 5
                 \/ x.fp[1] = 5 /\ Len(x.fp) > 1
                 \/ x.fp[1] = 5 /\ Len(x.fp) = 1 /\ x.ip # <<>> /\ x.ip[Len(x.ip)] % 2 = 1
    IN  IF up THEN increment(x.ip) ELSE x.ip

\* digits with a comma before every group of three
RECURSIVE grouped(_)
grouped(d) ==
    IF Len(d) <= 3 THEN [i \in 1..Len(d) |-> Digits[d[i] + 1]]
    ELSE grouped(SubSeq(d, 1, Len(d) - 3)) \o <<",">>
         \o [i \in 1..3 |-> Digits[d[Len(d) - 3 + i] + 1]]

\* line 270: f"${x:,.0f}" if pd.notna(x) else 'N/A'
formatMarketCap(x) ==
    IF x.none THEN chars("N/A")
    ELSE LET d == rounded(x)
         IN  <<"$">> \o (IF x.neg THEN <<"-">> ELSE <<>>)
             \o (IF d = <<>> THEN <<"0">> ELSE grouped(d))

\* lines 249-270: the output columns the model holds, the cap formatted
df_final_output(df) ==
    column(df, LAMBDA r : [position |-> r.position,
                           seniority_score |-> r.seniority_score,
                           company |-> r.company,
                           matched_company_name |-> r.matched_company_name,
                           matched_market_cap |-> formatMarketCap(r.matched_market_cap)])

\* a variant, for comparison: the script goes on with an empty frame
exitIfEmpty_never(df, exit, continue) == continue

\* lines 157-159, 213-215, 227-229, 240-242: an empty frame ends the script
exitIfEmpty(df, exit, continue) == IF df = <<>> THEN exit ELSE continue

\* Step 2, lines 143-161: clean and filter the companies by market cap; the
\* loaded frame holds the required columns or the script exits
FilterCompanies ==
    /\ pc = "filter_companies"
    /\ \E required_company_cols \in BOOLEAN :
          IF ~required_company_cols
          THEN /\ pc' = "exit_columns"
               /\ UNCHANGED df_companies_filtered
          ELSE LET filtered == filterByMarketCap(df_companies)
               IN  /\ df_companies_filtered' = filtered
                   /\ pc' = exitIfEmpty(filtered, "exit_no_companies", "prepare_targets")
    /\ UNCHANGED <<capVars, normVars, scoreVars,
                   df_companies, df_linkedin, target_company_names,
                   target_company_map, market_cap_map, fuzzy_match_cache, index,
                   extractOne_calls, matched_connections, df_matched,
                   df_matched_sorted, df_potential_contacts, output_file, to_csv_calls>>

\* lines 164-182: the target names and the maps; the connections' clean names
PrepareTargets ==
    /\ pc = "prepare_targets"
    /\ LET filtered == withCleanCompanyName(df_companies_filtered)
           names    == column(filtered, LAMBDA r : r.clean_company_name)
       IN  /\ df_companies_filtered' = filtered
           /\ target_company_names' = names
           /\ target_company_map' =
                 to_dict(names, column(filtered, LAMBDA r : r.company_name))
           /\ market_cap_map' =
                 to_dict(names, column(filtered, LAMBDA r : r.market_cap_usd))
    /\ \E required_linkedin_cols \in BOOLEAN :
          IF ~required_linkedin_cols
          THEN /\ pc' = "exit_columns"
               /\ UNCHANGED df_linkedin
          ELSE /\ df_linkedin' = withCleanCompany(df_linkedin)
               /\ pc' = "match"
    /\ matched_connections' = <<>>
    /\ fuzzy_match_cache' = <<>>
    /\ index' = 0
    /\ UNCHANGED <<capVars, normVars, scoreVars,
                   df_companies, extractOne_calls, df_matched, df_matched_sorted,
                   df_potential_contacts, output_file, to_csv_calls>>

loopUnchanged ==
    UNCHANGED <<pc, capVars, normVars, scoreVars,
                df_companies, df_linkedin, df_companies_filtered,
                target_company_names, target_company_map, market_cap_map,
                df_matched, df_matched_sorted, df_potential_contacts,
                output_file, to_csv_calls>>

\* lines 184-186: a row without a clean company name is skipped
SkipEmptyCompany ==
    /\ pc = "match" /\ index < Len(df_linkedin)
    /\ df_linkedin[index + 1].clean_company = <<>>
    /\ index' = index + 1
    /\ UNCHANGED <<fuzzy_match_cache, extractOne_calls, matched_connections>>
    /\ loopUnchanged

\* lines 189-190, 206-211: the match is taken from the cache
MatchFromCache ==
    /\ pc = "match" /\ index < Len(df_linkedin)
    /\ LET row == df_linkedin[index + 1]
       IN  /\ row.clean_company # <<>>
           /\ row.clean_company \in DOMAIN fuzzy_match_cache
           /\ matched_connections' =
                 appendIfMatched(row, fuzzy_match_cache[row.clean_company])
    /\ index' = index + 1
    /\ UNCHANGED <<fuzzy_match_cache, extractOne_calls>>
    /\ loopUnchanged

\* a variant, for comparison: the entry of the no-result branch stored for every result
cacheEntry_none(match_result) == NoMatch

\* what lines 198-203 store for the result of extractOne
cacheEntry(match_result) == IF match_result.found THEN match_result ELSE NoMatch

\* lines 191-211: the match is computed and stored in the cache
MatchComputed ==
    /\ pc = "match" /\ index < Len(df_linkedin)
    /\ LET row == df_linkedin[index + 1]
           match_result == extractOne(row.clean_company, target_company_names)
       IN  /\ row.clean_company # <<>>
           /\ row.clean_company \notin DOMAIN fuzzy_match_cache
           /\ fuzzy_match_cache' =
                 put(fuzzy_match_cache, row.clean_company, cacheEntry(match_result))
           /\ matched_connections' = appendIfMatched(row, cacheEntry(match_result))
    /\ extractOne_calls' = extractOne_calls + 1
    /\ index' = index + 1
    /\ loopUnchanged

\* Step 4, lines 213-229: rank seniority, drop the negative scores
RankSeniority ==
    /\ pc = "match" /\ index = Len(df_linkedin)
    /\ IF exitIfEmpty(matched_connections, "exit", "continue") = "exit"
       THEN /\ pc' = "exit_no_matches"
            /\ UNCHANGED df_matched
       ELSE LET scored == dropNegative(withSeniorityScore(matched_connections))
            IN  /\ df_matched' = scored
                /\ pc' = exitIfEmpty(scored, "exit_no_suitable", "sort_filter")
    /\ UNCHANGED <<capVars, normVars, scoreVars,
                   df_companies, df_linkedin, df_companies_filtered,
                   target_company_names, target_company_map, market_cap_map,
                   fuzzy_match_cache, index, extractOne_calls, matched_connections,
                   df_matched_sorted, df_potential_contacts, output_file, to_csv_calls>>

\* Step 5, lines 231-244: sort, then filter by the minimum seniority
SortAndFilter ==
    /\ pc = "sort_filter"
    /\ LET sorted   == sort_values(df_matched)
           contacts == meetsMinSeniority(sorted)
       IN  /\ df_matched_sorted' = sorted
           /\ df_potential_contacts' = contacts
           /\ pc' = exitIfEmpty(contacts, "exit_below_minimum", "save")
    /\ UNCHANGED <<capVars, normVars, scoreVars,
                   df_companies, df_linkedin, df_companies_filtered,
                   target_company_names, target_company_map, market_cap_map,
                   fuzzy_match_cache, index, extractOne_calls, matched_connections,
                   df_matched, output_file, to_csv_calls>>

\* Step 6, lines 246-284: to_csv writes the file or raises (caught, line 281)
SaveOutput ==
    /\ pc = "save"
    /\ to_csv_calls' = to_csv_calls + 1
    /\ \E saved \in BOOLEAN :
          output_file' = IF saved THEN df_final_output(df_potential_contacts)
                         ELSE output_file
    /\ pc' = "finished"
    /\ UNCHANGED <<capVars, normVars, scoreVars,
                   df_companies, df_linkedin, df_companies_filtered,
                   target_company_names, target_company_map, market_cap_map,
                   fuzzy_match_cache, index, extractOne_calls, matched_connections,
                   df_matched, df_matched_sorted, df_potential_contacts>>

\* the rows of Companies.csv and LinkedIn.csv the model draws from
CompanyRows == {
    [company_name |-> Str(chars("Ab Co")),   market_capitalization |-> Str(chars("$50M"))],
    [company_name |-> Str(chars("AB Inc.")), market_capitalization |-> Str(chars("0.1B"))],
    [company_name |-> Str(chars("B A")),     market_capitalization |-> Str(chars("60,000,000"))],
    [company_name |-> Str(chars("Cd")),      market_capitalization |-> Str(chars("49999999.99"))],
    [company_name |-> Str(chars("Cd")),      market_capitalization |-> Str(chars("100000000.01"))],
    [company_name |-> Str(chars("Cd")),      market_capitalization |-> Str(chars("abc"))] }

ConnectionRows == {
    [company |-> Str(chars("ab")),     position |-> Str(chars("Director"))],
    [company |-> Str(chars("AB Inc")), position |-> Str(chars("Assistant to the CEO"))],
    [company |-> Str(chars("A B")),    position |-> Str(chars("CEO"))],
    [company |-> Str(chars("ab")),     position |-> Str(chars("Manager"))],
    [company |-> Str(chars("ab")),     position |-> Str(chars("Former CEO"))],
    [company |-> Str(chars("Inc")),    position |-> Str(chars("CEO"))] }

\* the frames of at most n distinct rows
RECURSIVE FramesUpTo(_, _)
FramesUpTo(rows, n) ==
    IF n = 0 THEN {<<>>}
    ELSE LET shorter == FramesUpTo(rows, n - 1)
         IN  shorter \cup UNION {{Append(df, r) : r \in rows \ Range(df)} : df \in shorter}

\* Step 1, lines 120-141, has loaded the two files
Init ==
    /\ pc = "filter_companies"
    /\ df_companies \in FramesUpTo(CompanyRows, MaxCompanies)
    /\ df_linkedin \in FramesUpTo(ConnectionRows, MaxConns)
    /\ df_companies_filtered = <<>>
    /\ target_company_names = <<>>
    /\ target_company_map = <<>> /\ market_cap_map = <<>>
    /\ fuzzy_match_cache = <<>> /\ index = 0 /\ extractOne_calls = 0
    /\ matched_connections = <<>>
    /\ df_matched = <<>> /\ df_matched_sorted = <<>> /\ df_potential_contacts = <<>>
    /\ output_file = <<>> /\ to_csv_calls = 0
    /\ value = NaN /\ cap = None
    /\ name = NaN /\ once = <<>> /\ twice = <<>>
    /\ title = NaN /\ score = 0

Next ==
    \/ FilterCompanies
    \/ PrepareTargets
    \/ SkipEmptyCompany
    \/ MatchFromCache
    \/ MatchComputed
    \/ RankSeniority
    \/ SortAndFilter
    \/ SaveOutput

Spec == Init /\ [][Next]_vars

----------------------------------------------------------------------------
(* The helpers called on their own: the argument is drawn by Init, the     *)
(* action is the call.                                                     *)

CapAlphabet == {"-", "5", "0", ".", "M", "b", "$", ",", " "}
CapInputs == {NaN} \cup {Str(s) : s \in StringsUpTo(CapAlphabet, MaxCapLen)}

NameAlphabet == {"A", "c", "o", " ", ".", "!"}
NameInputs == {NaN} \cup {Str(s) : s \in StringsUpTo(NameAlphabet, MaxNameLen)}

TitlePieces == {
    chars("CEO"), chars("Senior Vice "), chars("President"), chars("Assistant to the "), chars("Former "),
    chars("Marketing "), chars("Intern"), chars("ex-"), chars("Director"), chars(" of Interns"), chars("ational"),
    chars("VP") }
RECURSIVE Concatenations(_, _)
Concatenations(pieces, n) ==
    IF n = 0 THEN {<<>>}
    ELSE LET shorter == Concatenations(pieces, n - 1)
         IN  shorter \cup {s \o p : s \in shorter, p \in pieces}
TitleInputs == {NaN} \cup {Str(s) : s \in Concatenations(TitlePieces, MaxPieces)}

IdleCap   == value = NaN /\ cap = None
IdleNorm  == name = NaN /\ once = <<>> /\ twice = <<>>
IdleScore == title = NaN /\ score = 0
IdlePipe ==
    /\ df_companies = <<>> /\ df_linkedin = <<>>
    /\ df_companies_filtered = <<>>
    /\ target_company_names = <<>>
    /\ target_company_map = <<>> /\ market_cap_map = <<>>
    /\ fuzzy_match_cache = <<>> /\ index = 0 /\ extractOne_calls = 0
    /\ matched_connections = <<>>
    /\ df_matched = <<>> /\ df_matched_sorted = <<>> /\ df_potential_contacts = <<>>
    /\ output_file = <<>> /\ to_csv_calls = 0

InitCap ==
    /\ pc = "cap_call"
    /\ value \in CapInputs /\ cap = None
    /\ IdleNorm /\ IdleScore /\ IdlePipe

CallCleanMarketCap ==
    /\ pc = "cap_call"
    /\ cap' = clean_market_cap(value)
    /\ pc' = "cap_done"
    /\ UNCHANGED <<value, normVars, scoreVars, pipeVars>>

SpecCap == InitCap /\ [][CallCleanMarketCap]_vars

InitNorm ==
    /\ pc = "norm_call"
    /\ name \in NameInputs /\ once = <<>> /\ twice = <<>>
    /\ IdleCap /\ IdleScore /\ IdlePipe

CallPreprocess ==
    /\ pc = "norm_call"
    /\ once' = preprocess_company_name(name)
    /\ pc' = "norm_again"
    /\ UNCHANGED <<name, twice, capVars, scoreVars, pipeVars>>

CallPreprocessAgain ==
    /\ pc = "norm_again"
    /\ twice' = preprocess_company_name(Str(once))
    /\ pc' = "norm_done"
    /\ UNCHANGED <<name, once, capVars, scoreVars, pipeVars>>

NextNorm == CallPreprocess \/ CallPreprocessAgain
SpecNorm == InitNorm /\ [][NextNorm]_vars

InitScore ==
    /\ pc = "score_call"
    /\ title \in TitleInputs /\ score = 0
    /\ IdleCap /\ IdleNorm /\ IdlePipe

CallAssignSeniorityScore ==
    /\ pc = "score_call"
    /\ score' = assign_seniority_score(title)
    /\ pc' = "score_done"
    /\ UNCHANGED <<title, capVars, normVars, pipeVars>>

SpecScore == InitScore /\ [][CallAssignSeniorityScore]_vars

----------------------------------------------------------------------------
(* The claims. *)

Terminated == pc \in {"exit_columns", "exit_no_companies", "exit_no_matches",
                      "exit_no_suitable", "exit_below_minimum", "finished"}

\* C1: assign_seniority_score returns the listed values for the example titles:
\* "CEO" 100, "Senior Vice President" 76, "Assistant to the CEO" 80,
\* "Former CEO" -100, "Marketing Intern" 0.
C1_ScoringExamples ==
    pc = "score_done" =>
        /\ title = Str(chars("CEO")) => score = 100
        /\ title = Str(chars("Senior Vice President")) => score = 76
        /\ title = Str(chars("Assistant to the CEO")) => score = 80
        /\ title = Str(chars("Former CEO")) => score = -100
        /\ title = Str(chars("Marketing Intern")) => score = 0

\* C2: normalization is idempotent: preprocess_company_name applied to its own
\* result returns that result.
C2_Idempotent == pc = "norm_done" => twice = once

\* the penalty the claim speaks of: the sum of the penalties of the negative
\* phrases that occur in the lower-cased title
C3_Penalty(t) ==
      (IF contains(chars("assistant to"), t) THEN -20 ELSE 0)
    + (IF contains(chars("intern"), t) THEN -50 ELSE 0)
    + (IF contains(chars("former"), t) THEN -100 ELSE 0)
    + (IF contains(chars("ex-"), t) THEN -100 ELSE 0)

\* C3: with penalty > -50 the score is max(penalty + bestPositive, 0), with
\* penalty = -50 it is 0, below -50 it is the penalty; so the score is never in
\* -50..-1, never above 100, and at most -100 for a title holding "former" or "ex-".
C3_StrongNegation ==
    (pc = "score_done" /\ ~isna(title)) =>
        LET t == lower(title.s)
            penalty == C3_Penalty(t)
            bestPositive == highestPositiveScore(t)
        IN  /\ penalty > -50 => score = Max(penalty + bestPositive, 0)
            /\ penalty = -50 => score = 0
            /\ penalty < -50 => score = penalty
            /\ score \notin -50..-1
            /\ score <= 100
            /\ (contains(chars("former"), t) \/ contains(chars("ex-"), t)) => score <= -100

\* C3's case: a title with a penalty of exactly -50 and a positive keyword
C3_Witness ==
    /\ pc = "score_done"
    /\ title = Str(chars("Director of Interns"))
    /\ highestPositiveScore(lower(title.s)) = 60
    /\ score = 0

\* C8: clean_market_cap returns null or a non-negative number.
C8_NonNegative == pc = "cap_done" => (cap.none \/ ~cap.neg \/ isZero(cap))

\* the states of the matching loop, from before its first row to after its last
\* (nothing after the loop writes what the loop wrote): the rows 1..index of
\* df_linkedin have been through the loop
InLoop == pc = "match"
ProcessedRows == SubSeq(df_linkedin, 1, index)
ProcessedKeys == {ProcessedRows[i].clean_company : i \in 1..index} \ {<<>>}

\* the best similarity score of q against the filtered reference names
BestScore(q) ==
    LET scores == {token_sort_ratio(q, target_company_names[i]) :
                      i \in 1..Len(target_company_names)}
    IN  CHOOSE m \in scores : \A x \in scores : x <= m

\* C4: a connection record yields a MatchedConnection if and only if its
\* normalized company name is non-empty and the best similarity score against the
\* filtered reference names is >= FUZZY_MATCH_THRESHOLD; a record with an empty
\* normalized name is skipped without a match being computed.
C4_MatchIffThreshold ==
    InLoop =>
        LET qualifies(r) == /\ r.clean_company # <<>>
                            /\ BestScore(r.clean_company) >= FUZZY_MATCH_THRESHOLD
            expected == SelectSeq(ProcessedRows, qualifies)
        IN  /\ Len(matched_connections) = Len(expected)
            /\ \A i \in 1..Len(expected) :
                  /\ matched_connections[i].company = expected[i].company
                  /\ matched_connections[i].position = expected[i].position
                  /\ matched_connections[i].match_score = BestScore(expected[i].clean_company)
            /\ extractOne_calls = Cardinality(ProcessedKeys)

\* C4's case: of two rows through the loop the first matched at exactly the
\* threshold and the second, of a non-empty name, scored below it
C4_Witness ==
    /\ pc = "match" /\ index = 2
    /\ Len(matched_connections) = 1
    /\ matched_connections[1].company = df_linkedin[1].company
    /\ matched_connections[1].match_score = FUZZY_MATCH_THRESHOLD
    /\ df_linkedin[2].clean_company # <<>>
    /\ BestScore(df_linkedin[2].clean_company) \in 1..(FUZZY_MATCH_THRESHOLD - 1)

\* the matching loop with the cache disabled
RECURSIVE C5_WithoutCache(_)
C5_WithoutCache(rows) ==
    IF rows = <<>> THEN <<>>
    ELSE LET before == C5_WithoutCache(SubSeq(rows, 1, Len(rows) - 1))
             row    == rows[Len(rows)]
             m      == extractOne(row.clean_company, target_company_names)
         IN  IF row.clean_company # <<>> /\ m.found /\ m.best_match # <<>>
                /\ m.score >= FUZZY_MATCH_THRESHOLD
             THEN Append(before,
                         [company |-> row.company, position |-> row.position,
                          clean_company |-> row.clean_company,
                          matched_company_name |-> target_company_map[m.best_match],
                          matched_market_cap |-> market_cap_map[m.best_match],
                          match_score |-> m.score])
             ELSE before

\* C5: the cache is a pure memo: after any prefix of the loop it holds exactly the
\* keys of the rows processed, each with the result a fresh best-match computation
\* returns (so no entry was changed or removed), and the matched connections are
\* those the loop produces with the cache disabled.
C5_PureMemo ==
    InLoop =>
        /\ DOMAIN fuzzy_match_cache = ProcessedKeys
        /\ \A k \in DOMAIN fuzzy_match_cache :
              LET fresh == extractOne(k, target_company_names)
              IN  /\ fuzzy_match_cache[k].best_match = fresh.best_match
                  /\ fuzzy_match_cache[k].score = fresh.score
        /\ matched_connections = C5_WithoutCache(ProcessedRows)

\* C5's case: two rows of different raw company names and one normalized name,
\* the second served from the cache, both matched
C5_Witness ==
    /\ pc = "match" /\ index = 2
    /\ df_linkedin[1].company # df_linkedin[2].company
    /\ df_linkedin[1].clean_company = df_linkedin[2].clean_company
    /\ extractOne_calls = 1
    /\ Len(matched_connections) = 2

C6_Ordered(df) ==
    \A i, j \in 1..Len(df) :
        i < j =>
            \/ strLess(df[i].matched_company_name.s, df[j].matched_company_name.s)
            \/ /\ df[i].matched_company_name = df[j].matched_company_name
               /\ df[i].seniority_score >= df[j].seniority_score

\* C6: the sequence handed to the writer is ordered by matched company name
\* ascending and, within a company, by seniority score descending; every record
\* has a score >= MIN_SENIORITY_SCORE and >= 0; the filter after the sort keeps
\* the sorted order.
C6_SortedOutput ==
    /\ pc \in {"save", "finished", "exit_below_minimum"} =>
          /\ C6_Ordered(df_matched_sorted)
          /\ C6_Ordered(df_potential_contacts)
          /\ \A i \in 1..Len(df_potential_contacts) :
                /\ df_potential_contacts[i].seniority_score >= MIN_SENIORITY_SCORE
                /\ df_potential_contacts[i].seniority_score >= 0
          /\ \E keep \in SUBSET (1..Len(df_matched_sorted)) :
                /\ Cardinality(keep) = Len(df_potential_contacts)
                /\ \A i \in 1..Len(df_potential_contacts) :
                      LET k == CHOOSE k \in keep :
                                  Cardinality({l \in keep : l <= k}) = i
                      IN  df_potential_contacts[i] = df_matched_sorted[k]
    /\ output_file # <<>> =>
          /\ Len(output_file) = Len(df_potential_contacts)
          /\ \A i \in 1..Len(output_file) :
                /\ output_file[i].matched_company_name =
                      df_potential_contacts[i].matched_company_name
                /\ output_file[i].seniority_score =
                      df_potential_contacts[i].seniority_score
                /\ output_file[i].position = df_potential_contacts[i].position

\* C6's case: two connections at one company, read in the order 60, 80 and
\* written in the order 80, 60
C6_Witness ==
    /\ pc = "finished"
    /\ df_linkedin[1].position = Str(chars("Director"))
    /\ Len(output_file) = 2
    /\ output_file[1].matched_company_name = output_file[2].matched_company_name
    /\ output_file[1].seniority_score = 80
    /\ output_file[2].seniority_score = 60

\* C7: a reference company is eligible if and only if its market cap parsed and
\* MIN_MARKET_CAP_USD <= cap <= MAX_MARKET_CAP_USD; a cap equal to a bound is kept,
\* one cent outside is not, an unparsable cap is excluded.
C7_RangeFilter ==
    pc \notin {"filter_companies", "exit_columns"} =>
        LET eligible(r) ==
                LET c == clean_market_cap(r.market_capitalization)
                IN  /\ ~c.none
                    /\ numLeq(fromInt(50000000), c)
                    /\ numLeq(c, fromInt(100000000))
            expected == SelectSeq(df_companies, eligible)
            kept(raw) == \E i \in 1..Len(df_companies_filtered) :
                            df_companies_filtered[i].market_capitalization = Str(raw)
        IN  /\ Len(df_companies_filtered) = Len(expected)
            /\ \A i \in 1..Len(expected) :
                  /\ df_companies_filtered[i].company_name = expected[i].company_name
                  /\ df_companies_filtered[i].market_capitalization =
                        expected[i].market_capitalization
            /\ \A i \in 1..Len(df_companies) :
                  LET raw == df_companies[i].market_capitalization
                  IN  /\ raw = Str(chars("$50M")) => kept(chars("$50M"))
                      /\ raw = Str(chars("0.1B")) => kept(chars("0.1B"))
            /\ ~kept(chars("49999999.99"))
            /\ ~kept(chars("100000000.01"))
            /\ ~kept(chars("abc"))

\* C7's case: a company at exactly the minimum is kept and one a cent below is not
C7_Witness ==
    /\ pc = "prepare_targets"
    /\ Len(df_companies) = 2
    /\ df_companies[1].market_capitalization = Str(chars("49999999.99"))
    /\ df_companies[2].market_capitalization = Str(chars("$50M"))
    /\ Len(df_companies_filtered) = 1
    /\ df_companies_filtered[1].market_capitalization = Str(chars("$50M"))

\* C9: when several in-range companies share a normalized name, a connection whose
\* best match is that name carries the official name and the market cap of the
\* last such reference row, both from the same row.
C9_LastSeen ==
    InLoop =>
        \A i \in 1..Len(matched_connections) :
            LET m    == matched_connections[i]
                k    == extractOne(m.clean_company, target_company_names).best_match
                same == {j \in 1..Len(df_companies_filtered) :
                            df_companies_filtered[j].clean_company_name = k}
                last == CHOOSE j \in same : \A l \in same : l <= j
            IN  /\ same # {}
                /\ m.matched_company_name = df_companies_filtered[last].company_name
                /\ m.matched_market_cap = df_companies_filtered[last].market_cap_usd

\* C9's case: two in-range companies of one normalized name and different
\* official names and caps, and a connection matched to that name
C9_Witness ==
    /\ InLoop
    /\ Len(df_companies_filtered) = 2
    /\ df_companies_filtered[1].clean_company_name =
          df_companies_filtered[2].clean_company_name
    /\ df_companies_filtered[1].company_name # df_companies_filtered[2].company_name
    /\ df_companies_filtered[1].market_cap_usd # df_companies_filtered[2].market_cap_usd
    /\ matched_connections # <<>>

C10_Safe ==
    /\ pc = "exit_no_companies" =>
          /\ df_companies_filtered = <<>>
          /\ index = 0 /\ extractOne_calls = 0 /\ matched_connections = <<>>
          /\ df_matched = <<>> /\ df_matched_sorted = <<>>
          /\ df_potential_contacts = <<>>
    /\ pc = "exit_no_matches" =>
          /\ matched_connections = <<>>
          /\ df_matched = <<>> /\ df_matched_sorted = <<>>
          /\ df_potential_contacts = <<>>
    /\ pc = "exit_no_suitable" =>
          /\ df_matched = <<>>
          /\ df_matched_sorted = <<>> /\ df_potential_contacts = <<>>
    /\ pc = "exit_below_minimum" => df_potential_contacts = <<>>
    /\ pc # "finished" => to_csv_calls = 0 /\ output_file = <<>>
    /\ to_csv_calls <= 1
    /\ to_csv_calls = 1 =>
          /\ df_companies_filtered # <<>>
          /\ matched_connections # <<>>
          /\ df_matched # <<>>
          /\ df_potential_contacts # <<>>

\* how far the script has come
C10_Stage ==
    CASE pc = "filter_companies" -> 0
      [] pc = "prepare_targets" -> 1
      [] pc = "match" -> 2
      [] pc = "sort_filter" -> 3
      [] pc = "save" -> 4
      [] Terminated -> 5

\* the guard of some step of the script holds
C10_CanStep ==
    \/ pc \in {"filter_companies", "prepare_targets", "sort_filter", "save"}
    \/ /\ pc = "match"
       /\ index < Len(df_linkedin)
       /\ LET key == df_linkedin[index + 1].clean_company
          IN  \/ key = <<>>
              \/ key # <<>> /\ key \in DOMAIN fuzzy_match_cache
              \/ key # <<>> /\ key \notin DOMAIN fuzzy_match_cache
    \/ /\ pc = "match"
       /\ index = Len(df_linkedin)

\* C10: each step is terminal-if-empty and the run always terminates: an empty
\* intermediate result ends the run at that step, no later step executes and
\* nothing is written; the writer is invoked at most once, and only after all four
\* intermediate results were non-empty.
\* The run always terminates: a run that has not ended can take a step
\* (C10_CanStep), and every step starts in a state that has not ended and moves
\* the script forward (C10_Stage, then index, only grow, and both are bounded).
C10_TerminalIfEmpty ==
    /\ []C10_Safe
    /\ [](Terminated \/ C10_CanStep)
    /\ [](index <= Len(df_linkedin))
    /\ [][/\ ~Terminated
          /\ \/ C10_Stage' > C10_Stage
             \/ C10_Stage' = C10_Stage /\ index' > index]_vars

\* C10's case: the run ended at the minimum-seniority step, the three results
\* before it non-empty
C10_Witness ==
    /\ pc = "exit_below_minimum"
    /\ df_companies_filtered # <<>>
    /\ matched_connections # <<>>
    /\ df_matched # <<>>
    /\ to_csv_calls = 0

====
